---- MODULE Spec2Model ----
(***************************************************************************)
(* rtk token-savings tracker (src/src/tracking.rs): the SQLite table       *)
(* `commands`, the write path record()/cleanup_old() with its best-effort  *)
(* wrappers track()/track_tokens(), and the aggregation queries.           *)
(*                                                                         *)
(* Time is counted in ticks, TicksPerDay ticks to a day, from              *)
(* 2024-01-01T00:00 UTC (a Monday).  A stored timestamp is the RFC 3339    *)
(* text chrono writes; it is modelled by its fixed-width fields            *)
(* <<year, month, day, tick of day>>, and SQLite's TEXT comparison by the  *)
(* lexicographic order of those fields.  savings_pct (f64) is modelled as  *)
(* the exact fraction [num, den]; rounding of f64 is not modelled.  Token  *)
(* counts are small naturals, on which the usize <-> i64 casts of the      *)
(* code are the identity.                                                  *)
(*                                                                         *)
(* Spec      one process at a time: record(), track(), track_tokens() and  *)
(*           the queries, each call one step.                              *)
(* SpecRank  record() and get_by_command() over up to NumCmds commands.    *)
(* SpecConc  several processes, record() one SQL statement per step.       *)
(***************************************************************************)
EXTENDS Integers, Sequences, FiniteSets, TLC

VARIABLES
    clock,      \* the wall clock Utc::now() reads, in ticks
    store,      \* rows of table `commands`
    result,     \* what the last finished call returned to its caller
    calls,      \* number of record() calls started so far
    issued,     \* history: the row ids INSERT has assigned, in order
    pc          \* per process of SpecConc: where it is inside record()

vars == <<clock, store, result, calls, issued, pc>>

(***************************************************************************)
(* Program constants and bounds                                            *)
(***************************************************************************)
HISTORY_DAYS == 90
ByCommandLimit == 10
ByDayLimit == 30

TicksPerDay == 2
MaxCalls == 2
NumProcs == 2
NumCmds == 11
NumDays == 31
Procs == 1..NumProcs

\* An rtk_cmd is modelled by the position of its name in SQLite's BINARY
\* collation order: command 1 sorts before command 2.  Spec records one
\* command; SpecRank records commands 1..NumCmds.
RtkCmds == {1}
\* the standard command an rtk command stands for
OriginalCmdOf(rc) == <<"original", rc>>
InputTokens == {0, 4}
OutputTokens == {1, 5}
\* byte lengths of the raw and the filtered output handed to track()
InputTextLens == {0, 13}
OutputTextLens == {1, 17}
\* 2024-10-27, a Sunday
StartClocks == {300 * TicksPerDay}
\* time between two invocations: one tick, or exactly the retention horizon
Delays == {1, HISTORY_DAYS * TicksPerDay}
\* time between the two clock readings of one record(): none, or more than
\* the retention horizon (the process was stopped, or the clock was set)
Elapsed == {0, HISTORY_DAYS * TicksPerDay + 1}
Faults == {"none", "insert", "prune"}

(***************************************************************************)
(* Calendar: chrono's to_rfc3339() and SQLite's DATE()/strftime()          *)
(***************************************************************************)
IsLeap(y) == (y % 4 = 0 /\ y % 100 # 0) \/ y % 400 = 0

DaysInYear(y) == IF IsLeap(y) THEN 366 ELSE 365

DaysInMonth(y, m) ==
    IF m = 2 THEN (IF IsLeap(y) THEN 29 ELSE 28)
    ELSE IF m \in {4, 6, 9, 11} THEN 30 ELSE 31

RECURSIVE YearOf(_, _)
YearOf(n, y) ==
    IF n < DaysInYear(y) THEN <<y, n>> ELSE YearOf(n - DaysInYear(y), y + 1)

RECURSIVE MonthOf(_, _, _)
MonthOf(doy, y, m) ==
    IF doy < DaysInMonth(y, m) THEN <<m, doy + 1>>
    ELSE MonthOf(doy - DaysInMonth(y, m), y, m + 1)

\* day number (0 = 2024-01-01) -> <<year, month, day>>
CivilFromDays(n) ==
    LET yd == YearOf(n, 2024)
        md == MonthOf(yd[2], yd[1], 1)
    IN  <<yd[1], md[1], md[2]>>

RECURSIVE DaysBeforeYear(_)
DaysBeforeYear(y) ==
    IF y <= 2024 THEN 0 ELSE DaysInYear(y - 1) + DaysBeforeYear(y - 1)

RECURSIVE DaysBeforeMonth(_, _)
DaysBeforeMonth(y, m) ==
    IF m <= 1 THEN 0 ELSE DaysInMonth(y, m - 1) + DaysBeforeMonth(y, m - 1)

\* <<year, month, day>> -> day number
DaysFromCivil(d) == DaysBeforeYear(d[1]) + DaysBeforeMonth(d[1], d[2]) + d[3] - 1

\* SQLite weekday number, Sunday = 0
Weekday(n) == (n + 1) % 7

\* DateTime<Utc>::to_rfc3339(): instant -> text
ToRfc3339(t) ==
    LET c == CivilFromDays(t \div TicksPerDay)
    IN  <<c[1], c[2], c[3], t % TicksPerDay>>

\* SQLite's comparison of two TEXT values of the same layout
TextLess(a, b) ==
    \E i \in 1..Len(a) : a[i] < b[i] /\ \A j \in 1..(i - 1) : a[j] = b[j]

\* DATE(timestamp)
SqlDate(ts) == <<ts[1], ts[2], ts[3]>>

\* mutant: 'weekday 0' always moves on, a Sunday to the Sunday after it
SqlWeekEnd_Strict(ts) ==
    LET n == DaysFromCivil(SqlDate(ts))
    IN  CivilFromDays(n + (7 - Weekday(n)))

\* DATE(timestamp, 'weekday 0'): forward to the next Sunday, if not one
SqlWeekEnd(ts) ==
    LET n == DaysFromCivil(SqlDate(ts))
    IN  CivilFromDays(n + ((7 - Weekday(n)) % 7))

\* DATE(timestamp, 'weekday 0', '-6 days')
SqlWeekStart(ts) == CivilFromDays(DaysFromCivil(SqlWeekEnd(ts)) - 6)

\* strftime('%Y-%m', timestamp)
SqlMonth(ts) == <<ts[1], ts[2]>>

(***************************************************************************)
(* Tracker::record and Tracker::cleanup_old                                *)
(***************************************************************************)
\* mutant: the plain difference, taken as a magnitude
Saved_AbsDiff(input_tokens, output_tokens) ==
    IF input_tokens >= output_tokens THEN input_tokens - output_tokens
    ELSE output_tokens - input_tokens

\* input_tokens.saturating_sub(output_tokens)
Saved(input_tokens, output_tokens) ==
    IF input_tokens >= output_tokens THEN input_tokens - output_tokens ELSE 0

\* mutant: the ratio, not scaled to a percentage
Pct_Ratio(saved, input_tokens) ==
    IF input_tokens > 0 THEN [num |-> saved, den |-> input_tokens]
    ELSE [num |-> 0, den |-> 1]

\* (saved as f64 / input_tokens as f64) * 100.0, or 0.0
Pct(saved, input_tokens) ==
    IF input_tokens > 0 THEN [num |-> saved * 100, den |-> input_tokens]
    ELSE [num |-> 0, den |-> 1]

RowIds(s) == {r.id : r \in s}

MaxOf(S) == CHOOSE x \in S : \A y \in S : y <= x

\* id INTEGER PRIMARY KEY with no AUTOINCREMENT: SQLite gives a new row the
\* largest rowid now in the table plus one, and 1 in an empty table
NextRowid(s) == IF s = {} THEN 1 ELSE MaxOf(RowIds(s)) + 1

NewRow(s, now, original_cmd, rtk_cmd, input_tokens, output_tokens) ==
    LET saved == Saved(input_tokens, output_tokens)
    IN  [id            |-> NextRowid(s),
         timestamp     |-> ToRfc3339(now),
         original_cmd  |-> original_cmd,
         rtk_cmd       |-> rtk_cmd,
         input_tokens  |-> input_tokens,
         output_tokens |-> output_tokens,
         saved_tokens  |-> saved,
         savings_pct   |-> Pct(saved, input_tokens)]

\* INSERT INTO commands ...
InsertRow(s, now, original_cmd, rtk_cmd, input_tokens, output_tokens) ==
    s \cup {NewRow(s, now, original_cmd, rtk_cmd, input_tokens, output_tokens)}

\* Utc::now() - chrono::Duration::days(HISTORY_DAYS)
Cutoff(now) == now - HISTORY_DAYS * TicksPerDay

\* mutant: DELETE ... WHERE timestamp <= ?1
CleanupOld_Inclusive(s, now) ==
    {r \in s : TextLess(ToRfc3339(Cutoff(now)), r.timestamp)}

\* DELETE FROM commands WHERE timestamp < ?1
CleanupOld(s, now) ==
    {r \in s : ~TextLess(r.timestamp, ToRfc3339(Cutoff(now)))}

\* record() run alone: the store, the clock and the value it returns.  The
\* clock is read once for the INSERT (now) and once more in cleanup_old
\* (now + e); a failing statement returns through `?` at once.
RecordOutcome(s, now, e, original_cmd, rtk_cmd, input_tokens, output_tokens, fault) ==
    IF fault = "insert"
    THEN [store |-> s, clock |-> now, ret |-> "Err", ids |-> <<>>]
    ELSE LET s1 == InsertRow(s, now, original_cmd, rtk_cmd, input_tokens, output_tokens)
             id == NextRowid(s)
         IN  IF fault = "prune"
             THEN [store |-> s1, clock |-> now + e, ret |-> "Err", ids |-> <<id>>]
             ELSE [store |-> CleanupOld(s1, now + e), clock |-> now + e,
                   ret |-> "Ok", ids |-> <<id>>]

\* (text.len() as f64 / 4.0).ceil() as usize
estimate_tokens(len) == (len + 3) \div 4

\* mutant: the Result of record() is handed on
Discard_Propagate(ret) == ret

\* `let _ = tracker.record(..)`: the Result is dropped, the caller gets ()
Discard(ret) == "unit"

(***************************************************************************)
(* Aggregation queries                                                     *)
(***************************************************************************)
RECURSIVE SumFn(_, _)
SumFn(f, S) ==
    IF S = {} THEN 0
    ELSE LET x == CHOOSE x \in S : TRUE IN f[x] + SumFn(f, S \ {x})

SumInput(S) == SumFn([r \in S |-> r.input_tokens], S)
SumOutput(S) == SumFn([r \in S |-> r.output_tokens], S)
SumSaved(S) == SumFn([r \in S |-> r.saved_tokens], S)

\* AVG(savings_pct) of the rows S, as a fraction
RECURSIVE PctSum(_)
PctSum(S) ==
    IF S = {} THEN [num |-> 0, den |-> 1]
    ELSE LET x == CHOOSE x \in S : TRUE
             rest == PctSum(S \ {x})
         IN  [num |-> x.savings_pct.num * rest.den + rest.num * x.savings_pct.den,
              den |-> x.savings_pct.den * rest.den]

AvgPct(S) == [num |-> PctSum(S).num, den |-> PctSum(S).den * Cardinality(S)]

\* ORDER BY key DESC over a set of TEXT keys
RECURSIVE SortDesc(_)
SortDesc(K) ==
    IF K = {} THEN <<>>
    ELSE LET m == CHOOSE x \in K : \A y \in K : y = x \/ TextLess(y, x)
         IN  <<m>> \o SortDesc(K \ {m})

\* mutant: the rows are left in the order the query returned them
Reverse_Missing(q) == q

\* Vec::reverse()
Reverse(q) == [i \in 1..Len(q) |-> q[Len(q) + 1 - i]]

\* LIMIT n
Limit(q, n) == SubSeq(q, 1, IF Len(q) < n THEN Len(q) ELSE n)

\* the fields every bucket row carries; savings_pct is computed in Rust
\* from the bucket's sums
BucketStats(S) ==
    [commands      |-> Cardinality(S),
     input_tokens  |-> SumInput(S),
     output_tokens |-> SumOutput(S),
     saved_tokens  |-> SumSaved(S),
     savings_pct   |-> Pct(SumSaved(S), SumInput(S))]

\* mutant: rows matched on the year and month of the date alone
DayRows_ByMonth(s, d) == {r \in s : SqlMonth(r.timestamp) = <<d[1], d[2]>>}

DayRows(s, d) == {r \in s : SqlDate(r.timestamp) = d}

\* mutant: a week takes the rows dated from its Monday to the next Monday
WeekRows_Overlap(s, w) ==
    {r \in s : DaysFromCivil(SqlDate(r.timestamp)) - DaysFromCivil(w) \in 0..7}

WeekRows(s, w) == {r \in s : SqlWeekStart(r.timestamp) = w}
MonthRows(s, m) == {r \in s : SqlMonth(r.timestamp) = m}

\* get_all_days(): GROUP BY DATE(timestamp) ORDER BY DATE(timestamp) DESC,
\* then result.reverse()
get_all_days(s) ==
    LET keys == SortDesc({SqlDate(r.timestamp) : r \in s})
        rows == [i \in 1..Len(keys) |->
                    [date |-> keys[i], stats |-> BucketStats(DayRows(s, keys[i]))]]
    IN  Reverse(rows)

\* get_by_week(): GROUP BY week_start ORDER BY week_start DESC, reversed;
\* week_end is read from a row of the group
get_by_week(s) ==
    LET keys == SortDesc({SqlWeekStart(r.timestamp) : r \in s})
        rows == [i \in 1..Len(keys) |->
                    [week_start |-> keys[i],
                     week_end   |-> SqlWeekEnd(
                         (CHOOSE r \in WeekRows(s, keys[i]) : TRUE).timestamp),
                     stats      |-> BucketStats(WeekRows(s, keys[i]))]]
    IN  Reverse(rows)

\* get_by_month(): GROUP BY month ORDER BY month DESC, reversed
get_by_month(s) ==
    LET keys == SortDesc({SqlMonth(r.timestamp) : r \in s})
        rows == [i \in 1..Len(keys) |->
                    [month |-> keys[i], stats |-> BucketStats(MonthRows(s, keys[i]))]]
    IN  Reverse(rows)

\* mutant: ORDER BY DATE(timestamp) LIMIT 30, ascending and not reversed
get_by_day_Oldest(s) ==
    LET keys == Limit(Reverse(SortDesc({SqlDate(r.timestamp) : r \in s})), ByDayLimit)
    IN  [i \in 1..Len(keys) |-> <<keys[i], SumSaved(DayRows(s, keys[i]))>>]

\* get_by_day(): the same grouping, ORDER BY DATE(timestamp) DESC LIMIT 30,
\* reversed
get_by_day(s) ==
    LET keys == Limit(SortDesc({SqlDate(r.timestamp) : r \in s}), ByDayLimit)
        rows == [i \in 1..Len(keys) |-> <<keys[i], SumSaved(DayRows(s, keys[i]))>>]
    IN  Reverse(rows)

CmdRows(s, c) == {r \in s : r.rtk_cmd = c}

\* one row of SELECT rtk_cmd, COUNT(*), SUM(saved_tokens), AVG(savings_pct)
\* ... GROUP BY rtk_cmd
CmdGroup(s, c) ==
    <<c, Cardinality(CmdRows(s, c)), SumSaved(CmdRows(s, c)), AvgPct(CmdRows(s, c))>>

\* mutant: ORDER BY SUM(saved_tokens) with DESC left out
RECURSIVE OrdersBySaved_Asc(_)
OrdersBySaved_Asc(G) ==
    IF G = {} THEN {<<>>}
    ELSE UNION {{<<g>> \o t : t \in OrdersBySaved_Asc(G \ {g})} :
                g \in {x \in G : \A y \in G : x[3] <= y[3]}}

\* ORDER BY SUM(saved_tokens) DESC names no further key: the engine may
\* return groups with equal sums in any order.  Every order it may return:
RECURSIVE OrdersBySaved(_)
OrdersBySaved(G) ==
    IF G = {} THEN {<<>>}
    ELSE UNION {{<<g>> \o t : t \in OrdersBySaved(G \ {g})} :
                g \in {x \in G : \A y \in G : y[3] <= x[3]}}

\* get_by_command(): every ranking the query may return
get_by_command(s) ==
    {Limit(o, ByCommandLimit) :
        o \in OrdersBySaved({CmdGroup(s, c) : c \in {r.rtk_cmd : r \in s}})}

\* mutant: avg_savings_pct as the mean of the rows' savings_pct
get_summary_MeanPct(s, ranking) ==
    [total_commands  |-> Cardinality(s),
     total_input     |-> SumInput(s),
     total_output    |-> SumOutput(s),
     total_saved     |-> SumSaved(s),
     avg_savings_pct |-> AvgPct(s),
     by_command      |-> ranking,
     by_day          |-> get_by_day(s)]

\* get_summary(), given the ranking get_by_command() returned
get_summary(s, ranking) ==
    [total_commands  |-> Cardinality(s),
     total_input     |-> SumInput(s),
     total_output    |-> SumOutput(s),
     total_saved     |-> SumSaved(s),
     avg_savings_pct |-> Pct(SumSaved(s), SumInput(s)),
     by_command      |-> ranking,
     by_day          |-> get_by_day(s)]

(***************************************************************************)
(* gain.rs: the TOTAL row under the daily, weekly and monthly tables       *)
(***************************************************************************)
\* .iter().map(..).sum()
RECURSIVE IterSum(_)
IterSum(q) == IF q = <<>> THEN 0 ELSE Head(q) + IterSum(Tail(q))

\* total_cmds, total_input, total_output, total_saved and avg_pct of
\* print_daily_full, print_weekly and print_monthly
TotalRow(buckets) ==
    LET total_input == IterSum([i \in 1..Len(buckets) |-> buckets[i].stats.input_tokens])
        total_saved == IterSum([i \in 1..Len(buckets) |-> buckets[i].stats.saved_tokens])
    IN  [total_cmds   |-> IterSum([i \in 1..Len(buckets) |-> buckets[i].stats.commands]),
         total_input  |-> total_input,
         total_output |-> IterSum([i \in 1..Len(buckets) |-> buckets[i].stats.output_tokens]),
         total_saved  |-> total_saved,
         avg_pct      |-> Pct(total_saved, total_input)]

Init ==
    /\ clock \in StartClocks
    /\ store = {}
    /\ result = [op |-> "none"]
    /\ calls = 0
    /\ issued = <<>>
    /\ pc = [p \in Procs |-> "idle"]

\* tracker.record(original_cmd, rtk_cmd, input_tokens, output_tokens)
Record ==
    /\ calls < MaxCalls
    /\ \E d \in Delays, e \in Elapsed, rc \in RtkCmds,
          it \in InputTokens, ot \in OutputTokens, fault \in Faults :
          LET o == RecordOutcome(store, clock + d, e, OriginalCmdOf(rc), rc, it, ot, fault)
          IN  /\ store' = o.store
              /\ clock' = o.clock
              /\ issued' = issued \o o.ids
              /\ result' = [op |-> "record", fault |-> fault, ret |-> o.ret]
    /\ calls' = calls + 1
    /\ UNCHANGED pc

\* track(original_cmd, rtk_cmd, input, output): token counts estimated from
\* the two texts; neither Tracker::new() failing nor record() failing shows
Track ==
    /\ calls < MaxCalls
    /\ \E d \in Delays, e \in Elapsed, rc \in RtkCmds,
          il \in InputTextLens, ol \in OutputTextLens, fault \in Faults \cup {"open"} :
          IF fault = "open"
          THEN /\ clock' = clock + d
               /\ UNCHANGED <<store, issued>>
               /\ result' = [op |-> "track", fault |-> fault, ret |-> "unit"]
          ELSE LET o == RecordOutcome(store, clock + d, e, OriginalCmdOf(rc), rc,
                                      estimate_tokens(il), estimate_tokens(ol), fault)
               IN  /\ store' = o.store
                   /\ clock' = o.clock
                   /\ issued' = issued \o o.ids
                   /\ result' = [op |-> "track", fault |-> fault, ret |-> Discard(o.ret)]
    /\ calls' = calls + 1
    /\ UNCHANGED pc

\* track_tokens(original_cmd, rtk_cmd, input_tokens, output_tokens)
TrackTokens ==
    /\ calls < MaxCalls
    /\ \E d \in Delays, e \in Elapsed, rc \in RtkCmds,
          it \in InputTokens, ot \in OutputTokens, fault \in Faults \cup {"open"} :
          IF fault = "open"
          THEN /\ clock' = clock + d
               /\ UNCHANGED <<store, issued>>
               /\ result' = [op |-> "track_tokens", fault |-> fault, ret |-> "unit"]
          ELSE LET o == RecordOutcome(store, clock + d, e, OriginalCmdOf(rc), rc, it, ot, fault)
               IN  /\ store' = o.store
                   /\ clock' = o.clock
                   /\ issued' = issued \o o.ids
                   /\ result' = [op |-> "track_tokens", fault |-> fault,
                                 ret |-> Discard(o.ret)]
    /\ calls' = calls + 1
    /\ UNCHANGED pc

\* tracker.get_summary()
GetSummary ==
    /\ \E ranking \in get_by_command(store) :
          result' = [op |-> "get_summary", ret |-> get_summary(store, ranking)]
    /\ UNCHANGED <<clock, store, calls, issued, pc>>

\* tracker.get_all_days()
GetAllDays ==
    /\ result' = [op |-> "get_all_days", ret |-> get_all_days(store)]
    /\ UNCHANGED <<clock, store, calls, issued, pc>>

\* tracker.get_by_week()
GetByWeek ==
    /\ result' = [op |-> "get_by_week", ret |-> get_by_week(store)]
    /\ UNCHANGED <<clock, store, calls, issued, pc>>

\* tracker.get_by_month()
GetByMonth ==
    /\ result' = [op |-> "get_by_month", ret |-> get_by_month(store)]
    /\ UNCHANGED <<clock, store, calls, issued, pc>>

Next ==
    \/ Record
    \/ Track
    \/ TrackTokens
    \/ GetSummary
    \/ GetAllDays
    \/ GetByWeek
    \/ GetByMonth

Spec == Init /\ [][Next]_vars

(***************************************************************************)
(* SpecRank: the by-command ranking over a store of up to NumCmds          *)
(* commands.  Commands are first recorded in the order of their names;     *)
(* command c saves c tokens with its first row and one more with a second  *)
(* row, so that neighbouring commands can tie.                             *)
(***************************************************************************)
RankRecord ==
    /\ LET n == Cardinality({r.rtk_cmd : r \in store})
       IN  \E rc \in {n, n + 1} \cap (1..NumCmds), it \in 1..NumCmds :
              /\ \/ rc = n + 1 /\ it = rc
                 \/ rc = n /\ it = 1 /\ Cardinality(CmdRows(store, rc)) = 1
              /\ LET o == RecordOutcome(store, clock, 0, OriginalCmdOf(rc), rc, it, 0, "none")
                 IN  /\ store' = o.store
                     /\ clock' = o.clock
                     /\ issued' = issued \o o.ids
                     /\ result' = [op |-> "record", fault |-> "none", ret |-> o.ret]
    /\ calls' = calls + 1
    /\ UNCHANGED pc

\* tracker.get_by_command(), as get_summary() calls it
GetByCommand ==
    /\ \E ranking \in get_by_command(store) :
          result' = [op |-> "get_by_command", ret |-> ranking]
    /\ UNCHANGED <<clock, store, calls, issued, pc>>

NextRank ==
    \/ RankRecord
    \/ GetByCommand

SpecRank == Init /\ [][NextRank]_vars

(***************************************************************************)
(* SpecConc: several rtk processes on one history.db.  A process runs      *)
(* record() as two autocommit statements, the INSERT and the DELETE of     *)
(* cleanup_old(); SQLite makes each statement atomic, and nothing joins    *)
(* the two.                                                                *)
(***************************************************************************)
\* params![Utc::now().to_rfc3339(), ..] and the INSERT of process p
ConcInsert(p) ==
    /\ pc[p] = "idle"
    /\ calls < MaxCalls
    /\ calls' = calls + 1
    /\ \E d \in Delays, rc \in RtkCmds, it \in InputTokens, ot \in OutputTokens,
          fault \in {"none", "insert"} :
          /\ clock' = clock + d
          /\ IF fault = "insert"
             THEN /\ UNCHANGED <<store, issued, pc>>
                  /\ result' = [op |-> "record", fault |-> fault, ret |-> "Err"]
             ELSE /\ store' = InsertRow(store, clock + d, OriginalCmdOf(rc), rc, it, ot)
                  /\ issued' = Append(issued, NextRowid(store))
                  /\ pc' = [pc EXCEPT ![p] = "inserted"]
                  /\ UNCHANGED result

\* self.cleanup_old()? of process p, and its return from record()
ConcCleanup(p) ==
    /\ pc[p] = "inserted"
    /\ pc' = [pc EXCEPT ![p] = "idle"]
    /\ \E e \in Elapsed, fault \in {"none", "prune"} :
          /\ clock' = clock + e
          /\ IF fault = "prune"
             THEN /\ UNCHANGED store
                  /\ result' = [op |-> "record", fault |-> fault, ret |-> "Err"]
             ELSE /\ store' = CleanupOld(store, clock + e)
                  /\ result' = [op |-> "record", fault |-> fault, ret |-> "Ok"]
    /\ UNCHANGED <<calls, issued>>

NextConc ==
    \/ \E p \in Procs : ConcInsert(p)
    \/ \E p \in Procs : ConcCleanup(p)
    \/ GetAllDays

SpecConc == Init /\ [][NextConc]_vars

(***************************************************************************)
(* SpecDays: a history of up to NumDays calendar dates.  One command is    *)
(* recorded a day, its raw output one token and its filtered output by     *)
(* turns empty and one token; the first command may come on the day the    *)
(* clock starts, and a second command may follow it on its day.  The       *)
(* history stays inside the retention horizon, so nothing is pruned.       *)
(***************************************************************************)
DayRecord ==
    /\ \E d \in {1, TicksPerDay} :
          /\ \/ /\ d = TicksPerDay
                /\ Cardinality({SqlDate(r.timestamp) : r \in store}) < NumDays
             \/ /\ d = 1
                /\ clock % TicksPerDay = 0
                /\ Cardinality(store) <= 1
          /\ LET o == RecordOutcome(store, clock + d, 0, OriginalCmdOf(1), 1,
                                    1, Cardinality(store) % 2, "none")
             IN  /\ store' = o.store
                 /\ clock' = o.clock
                 /\ issued' = issued \o o.ids
                 /\ result' = [op |-> "record", fault |-> "none", ret |-> o.ret]
    /\ UNCHANGED <<calls, pc>>

NextDays ==
    \/ DayRecord
    \/ GetSummary
    \/ GetAllDays
    \/ GetByWeek
    \/ GetByMonth

SpecDays == Init /\ [][NextDays]_vars

(***************************************************************************)
(* Properties                                                              *)
(***************************************************************************)
\* C1: every stored row has saved_tokens = max(0, input_tokens -
\* output_tokens), hence saved_tokens <= input_tokens; nothing underflows
\* when output_tokens > input_tokens.
C1_SavedTokens ==
    \A r \in store :
        /\ r.saved_tokens =
               (IF r.input_tokens - r.output_tokens > 0
                THEN r.input_tokens - r.output_tokens ELSE 0)
        /\ r.saved_tokens <= r.input_tokens

\* a stored row whose output exceeded its input (input = 0, output > 0)
C1_Witness ==
    \E r \in store :
        r.input_tokens = 0 /\ r.output_tokens > 0 /\ r.saved_tokens = 0

\* C2: every stored row has savings_pct = saved_tokens / input_tokens * 100
\* when input_tokens > 0 and savings_pct = 0 when input_tokens = 0, so
\* savings_pct lies in [0, 100].
C2_SavingsPct ==
    \A r \in store :
        /\ r.savings_pct.den > 0
        /\ r.input_tokens > 0 =>
               r.savings_pct.num * r.input_tokens
                   = r.saved_tokens * 100 * r.savings_pct.den
        /\ r.input_tokens = 0 => r.savings_pct.num = 0
        /\ 0 <= r.savings_pct.num
        /\ r.savings_pct.num <= 100 * r.savings_pct.den

\* rows with a partial saving, with no saving, and with no input at all
C2_Witness ==
    /\ \E r \in store : r.input_tokens > 0 /\ 0 < r.saved_tokens
                         /\ r.saved_tokens < r.input_tokens
    /\ \E r \in store : r.input_tokens = 0 /\ r.output_tokens > 0

\* C3: when a record() call returns Ok, the store holds the rows it held
\* before plus the new row, minus every row whose timestamp is earlier than
\* now - 90 days, where now is the clock reading cleanup_old() takes (the
\* value of the clock when the call returns); no row at or after that
\* cutoff is removed.  Ages are taken on the instants the timestamp texts
\* denote, not on the texts.
C3_Retention ==
    [][(calls' = calls + 1 /\ result'.op = "record" /\ result'.ret = "Ok") =>
          \E d \in Delays, rc \in RtkCmds, it \in InputTokens, ot \in OutputTokens :
              LET new == NewRow(store, clock + d, OriginalCmdOf(rc), rc, it, ot)
                  InstantOf(ts) ==
                      DaysFromCivil(<<ts[1], ts[2], ts[3]>>) * TicksPerDay + ts[4]
              IN  /\ InstantOf(new.timestamp) = clock + d
                  /\ store' =
                        {r \in store \cup {new} :
                            InstantOf(r.timestamp) >= clock' - 90 * TicksPerDay}]_vars

\* a second record() has returned Ok and only its row is left: the row of
\* the first call was older than the horizon and is gone
C3_Witness ==
    /\ result.op = "record"
    /\ result.ret = "Ok"
    /\ Cardinality(store) = 1
    /\ \E r \in store : r.id = 2 /\ r.timestamp = ToRfc3339(clock)

\* C4: for concurrent record() calls, the INSERT of a call and its DELETE
\* are one atomic unit: while a process is between the two, no other
\* writer's statement changes the store and no reader gets a result.
C4_AtomicInsertPrune ==
    [][\A p \in Procs :
          pc[p] = "inserted" =>
              (pc'[p] = "idle" \/ (store' = store /\ result' = result))]_vars

\* C5: the buckets of get_all_days(), summed again, give the totals of
\* get_summary(): commands, input_tokens, output_tokens and saved_tokens;
\* every row is counted in exactly one daily bucket.
C5_DailyRoundTrip ==
    result.op = "get_all_days" =>
        \A ranking \in get_by_command(store) :
            LET days == result.ret
                summary == get_summary(store, ranking)
            IN  /\ SumFn([i \in 1..Len(days) |-> days[i].stats.commands], 1..Len(days))
                       = summary.total_commands
                /\ SumFn([i \in 1..Len(days) |-> days[i].stats.input_tokens], 1..Len(days))
                       = summary.total_input
                /\ SumFn([i \in 1..Len(days) |-> days[i].stats.output_tokens], 1..Len(days))
                       = summary.total_output
                /\ SumFn([i \in 1..Len(days) |-> days[i].stats.saved_tokens], 1..Len(days))
                       = summary.total_saved
                /\ \A r \in store :
                       Cardinality({i \in 1..Len(days) :
                                       days[i].date = SqlDate(r.timestamp)}) = 1

\* a daily breakdown of two days of one month, with tokens saved
C5_Witness ==
    /\ result.op = "get_all_days"
    /\ Len(result.ret) = 2
    /\ result.ret[1].date[2] = result.ret[2].date[2]
    /\ \E i \in 1..2 : result.ret[i].stats.saved_tokens > 0

\* C6: get_all_days(), get_by_week() and get_by_month() return their
\* buckets in strictly ascending order of the bucket key.
C6_AscendingBuckets ==
    /\ result.op = "get_all_days" =>
          \A i, j \in 1..Len(result.ret) :
              i < j => TextLess(result.ret[i].date, result.ret[j].date)
    /\ result.op = "get_by_week" =>
          \A i, j \in 1..Len(result.ret) :
              i < j => TextLess(result.ret[i].week_start, result.ret[j].week_start)
    /\ result.op = "get_by_month" =>
          \A i, j \in 1..Len(result.ret) :
              i < j => TextLess(result.ret[i].month, result.ret[j].month)

\* a monthly breakdown whose two buckets lie in different years
C6_Witness ==
    /\ result.op = "get_by_month"
    /\ Len(result.ret) = 2
    /\ result.ret[1].month[1] < result.ret[2].month[1]

\* C7: the ranking holds at most 10 command groups, min(10, number of
\* groups) of them, each with its row count and its sum of saved_tokens,
\* in descending order of that sum; no group left out has a greater sum
\* than a group returned.
C7_TopTen ==
    result.op = "get_by_command" =>
        LET rk == result.ret
            cmds == {r.rtk_cmd : r \in store}
            listed == {rk[i][1] : i \in 1..Len(rk)}
            saved(c) == SumSaved({r \in store : r.rtk_cmd = c})
        IN  /\ Len(rk) <= 10
            /\ Len(rk) = (IF Cardinality(cmds) < 10 THEN Cardinality(cmds) ELSE 10)
            /\ listed \subseteq cmds
            /\ Cardinality(listed) = Len(rk)
            /\ \A i \in 1..Len(rk) :
                  /\ rk[i][2] = Cardinality({r \in store : r.rtk_cmd = rk[i][1]})
                  /\ rk[i][3] = saved(rk[i][1])
            /\ \A i, j \in 1..Len(rk) : i < j => rk[i][3] >= rk[j][3]
            /\ \A c \in cmds \ listed : \A i \in 1..Len(rk) : saved(c) <= rk[i][3]

\* a ranking of 10 groups taken from more than 10, one of them of two rows
C7_Witness ==
    /\ result.op = "get_by_command"
    /\ Cardinality({r.rtk_cmd : r \in store}) > 10
    /\ Len(result.ret) = 10
    /\ \E i \in 1..10 : result.ret[i][2] = 2

\* C8: among groups with equal sums the ranking goes by command name
\* ascending, also in the choice of the groups that make the top 10.
C8_TieBreakByName ==
    result.op = "get_by_command" =>
        LET rk == result.ret
            cmds == {r.rtk_cmd : r \in store}
            listed == {rk[i][1] : i \in 1..Len(rk)}
            saved(c) == SumSaved({r \in store : r.rtk_cmd = c})
        IN  /\ \A i, j \in 1..Len(rk) :
                  (i < j /\ rk[i][3] = rk[j][3]) => rk[i][1] < rk[j][1]
            /\ \A c \in cmds \ listed : \A i \in 1..Len(rk) :
                  saved(c) = rk[i][3] => rk[i][1] < c

\* C9: track() and track_tokens() return () whether opening the store, the
\* INSERT or the DELETE fails; record() returns Err exactly when one of
\* its statements fails.
C9_BestEffort ==
    /\ result.op \in {"track", "track_tokens"} => result.ret = "unit"
    /\ result.op = "record" => (result.ret = "Err" <=> result.fault # "none")

\* track() has returned after its INSERT failed
C9_Witness ==
    /\ result.op = "track"
    /\ result.fault = "insert"
    /\ result.ret = "unit"

\* C10: every row id INSERT assigns is greater than every id assigned
\* before it, pruned rows included (no id is used twice).
C10_IdsNeverReused ==
    \A i, j \in 1..Len(issued) : i < j => issued[i] < issued[j]

\* C11: on an empty store get_summary() returns total_commands = 0, zero
\* token totals, avg_savings_pct = 0, an empty ranking and an empty daily
\* series; in general avg_savings_pct is 0 when total_input is 0 and
\* total_saved / total_input * 100 otherwise, from the pooled totals.
C11_SummaryAverage ==
    result.op = "get_summary" =>
        LET sm == result.ret
            avg == sm.avg_savings_pct
        IN  /\ avg.den > 0
            /\ sm.total_input = 0 => avg.num = 0
            /\ sm.total_input > 0 =>
                  avg.num * sm.total_input = sm.total_saved * 100 * avg.den
            /\ store = {} =>
                  /\ sm.total_commands = 0
                  /\ sm.total_input = 0
                  /\ sm.total_output = 0
                  /\ sm.total_saved = 0
                  /\ avg.num = 0
                  /\ sm.by_command = <<>>
                  /\ sm.by_day = <<>>

\* get_summary() has returned on an empty store
C11_Witness ==
    /\ result.op = "get_summary"
    /\ store = {}
    /\ result.ret.total_commands = 0
    /\ result.ret.avg_savings_pct.num = 0

\* C12: in get_by_week() every record lies in exactly one bucket, the one
\* whose week_end is the first Sunday on or after the record's date (the
\* date itself when it is a Sunday) and whose week_start is six days before
\* week_end; so week_end is a Sunday, week_start the Monday six days earlier,
\* and each bucket counts exactly the records with week_start <= date <=
\* week_end.  Day 0 is Monday 2024-01-01, so Sundays are the days 6 mod 7.
C12_WeekBuckets ==
    result.op = "get_by_week" =>
        LET wk == result.ret
            DayOf(r) == DaysFromCivil(SqlDate(r.timestamp))
            InBucket(r, i) ==
                /\ DaysFromCivil(wk[i].week_start) <= DayOf(r)
                /\ DayOf(r) <= DaysFromCivil(wk[i].week_end)
        IN  /\ \A i \in 1..Len(wk) :
                  /\ DaysFromCivil(wk[i].week_end) % 7 = 6
                  /\ DaysFromCivil(wk[i].week_start) = DaysFromCivil(wk[i].week_end) - 6
                  /\ DaysFromCivil(wk[i].week_start) % 7 = 0
                  /\ wk[i].stats.commands = Cardinality({r \in store : InBucket(r, i)})
                  /\ wk[i].stats.commands > 0
            /\ \A r \in store :
                  /\ Cardinality({i \in 1..Len(wk) : InBucket(r, i)}) = 1
                  /\ \A i \in 1..Len(wk) :
                        InBucket(r, i) =>
                            /\ ~\E n \in DayOf(r)..(DaysFromCivil(wk[i].week_end) - 1) :
                                   n % 7 = 6
                            /\ DayOf(r) % 7 = 6 => wk[i].week_end = SqlDate(r.timestamp)

\* get_by_week() has returned several weeks, one of them ending on the
\* Sunday a record is dated, another holding a record dated a Monday
C12_Witness ==
    /\ result.op = "get_by_week"
    /\ Len(result.ret) >= 3
    /\ \E r \in store, i \in 1..Len(result.ret) :
          /\ DaysFromCivil(SqlDate(r.timestamp)) % 7 = 6
          /\ result.ret[i].week_end = SqlDate(r.timestamp)
    /\ \E r \in store, i \in 1..Len(result.ret) :
          /\ DaysFromCivil(SqlDate(r.timestamp)) % 7 = 0
          /\ result.ret[i].week_start = SqlDate(r.timestamp)

\* C13: get_summary().by_day holds the min(30, number of distinct dates)
\* most recent dates present in the store, oldest first, each with the sum
\* of saved_tokens of that date's records; it is the last (up to 30) entries
\* of get_all_days() projected to (date, saved_tokens).
C13_DailySeries ==
    result.op = "get_summary" =>
        LET bd    == result.ret.by_day
            all   == get_all_days(store)
            dates == {SqlDate(r.timestamp) : r \in store}
            n     == Cardinality(dates)
            k     == IF n < ByDayLimit THEN n ELSE ByDayLimit
        IN  /\ Len(bd) = k
            /\ Len(all) = n
            /\ \A i \in 1..k :
                  /\ bd[i] = <<all[n - k + i].date, all[n - k + i].stats.saved_tokens>>
                  /\ bd[i][1] \in dates
                  /\ bd[i][2] = SumSaved({r \in store : SqlDate(r.timestamp) = bd[i][1]})
                  /\ \A j \in (i + 1)..k : TextLess(bd[i][1], bd[j][1])
                  /\ \A d \in dates :
                        (\A j \in 1..k : bd[j][1] # d) => TextLess(d, bd[i][1])

\* get_summary() has returned on a store of more than 30 dates
C13_Witness ==
    /\ result.op = "get_summary"
    /\ Cardinality({SqlDate(r.timestamp) : r \in store}) > ByDayLimit
    /\ Len(result.ret.by_day) = ByDayLimit
    /\ Len(get_all_days(store)) > ByDayLimit

\* C14: the weekly and the monthly buckets each partition the records: the
\* sums of commands, input_tokens, output_tokens and saved_tokens over the
\* get_by_week() buckets, over the get_by_month() buckets and over the
\* get_all_days() buckets equal get_summary()'s total_commands, total_input,
\* total_output and total_saved, so the TOTAL rows of the daily, weekly and
\* monthly views agree.
C14_BucketsPartition ==
    result.op \in {"get_all_days", "get_by_week", "get_by_month"} =>
        \A ranking \in get_by_command(store) :
            LET sm == get_summary(store, ranking)
                t  == TotalRow(result.ret)
            IN  /\ t.total_cmds = sm.total_commands
                /\ t.total_input = sm.total_input
                /\ t.total_output = sm.total_output
                /\ t.total_saved = sm.total_saved
                /\ t.avg_pct = sm.avg_savings_pct

\* get_by_week() has returned several weeks of a store that also spans
\* two months and has a date with two records
C14_Witness ==
    /\ result.op = "get_by_week"
    /\ Len(result.ret) >= 4
    /\ Len(get_by_month(store)) >= 2
    /\ Cardinality(store) > Len(get_all_days(store))
    /\ TotalRow(result.ret).total_saved = SumSaved(store)
    /\ SumSaved(store) > 0

====
